---- MODULE Spec2Model ----
(***************************************************************************)
(* Model of permutation2020/python/bed_line.py: the BedLine class.         *)
(*                                                                         *)
(* A BedLine object is constructed from one line of a BED file (or from    *)
(* the already split list of its fields), keeps the coding part of its     *)
(* exons, and answers query_position(strand, chr, genome_coord).           *)
(*                                                                         *)
(* A Python str is modelled as a sequence of tokens: a token is either a   *)
(* separator ("\t" or ",") or a maximal run of other characters.  So the   *)
(* line "chr1\t2\t..." is <<"chr1", "\t", "2", "\t", ...>>, the field      *)
(* "chr1" is <<"chr1">> and the field "1,3," is <<"1", ",", "3", ",">>.    *)
(* Python's None is the empty tuple and an int result n is <<n>>.          *)
(* The module is Python 2 code: map() returns a list (line 117).           *)
(***************************************************************************)
EXTENDS Integers, Sequences, FiniteSets, TLC

\* ---------------------------------------------------------------- bounds
\* Most raw exons (blocks) of a generated record.
MaxExons == 3
\* Largest block size of a generated record.
MaxSize == 4
\* Largest intron (gap between consecutive blocks) of a generated record.
MaxGap == 4
\* Largest chromEnd - chromStart of a generated record.
MaxSpan == 11
\* Largest distance of thickStart from chromStart and of thickEnd from chromEnd.
MaxUtr == 2
\* chromStart of the generated records.
FirstStart == 2
\* Queried coordinates run from FirstStart - Margin to FirstStart + MaxSpan + Margin.
Margin == 2

\* ------------------------------------------------------- Python helpers
None == <<>>
Some(n) == <<n>>

Min(a, b) == IF a < b THEN a ELSE b
Max(a, b) == IF a > b THEN a ELSE b

\* The integers that occur in a generated record.
Numerals == 0 .. (FirstStart + MaxSpan + Margin)

\* str(n)
Str(n) == <<ToString(n)>>

\* int(s): the integer a one-token decimal string denotes.
ToInt(s) == CHOOSE n \in Numerals : ToString(n) = s[1]

\* s.split(sep): the fields between the occurrences of sep, in order.
RECURSIVE Split(_, _)
Split(s, sep) ==
    IF \A k \in 1..Len(s) : s[k] # sep
    THEN <<s>>
    ELSE LET k == CHOOSE j \in 1..Len(s) :
                      s[j] = sep /\ \A h \in 1..(j-1) : s[h] # sep
         IN  <<SubSeq(s, 1, k-1)>> \o Split(SubSeq(s, k+1, Len(s)), sep)

\* s.strip(c): s without its leading and trailing c.
RECURSIVE Strip(_, _)
Strip(s, c) ==
    IF s = <<>> THEN s
    ELSE IF s[1] = c THEN Strip(Tail(s), c)
    ELSE IF s[Len(s)] = c THEN Strip(SubSeq(s, 1, Len(s)-1), c)
    ELSE s

\* sum(xs)
RECURSIVE Sum(_)
Sum(xs) == IF xs = <<>> THEN 0 ELSE xs[1] + Sum(Tail(xs))

\* sep.join(fields), used to write the generated lines.
RECURSIVE Join(_, _)
Join(fields, sep) ==
    IF fields = <<>> THEN <<>>
    ELSE IF Len(fields) = 1 THEN fields[1]
    ELSE fields[1] \o <<sep>> \o Join(Tail(fields), sep)

\* -------------------------------------------------------------- BED line
BED_HEADER == <<"chrom", "chromStart", "chromEnd", "name",
                "score", "strand", "thickStart", "thickEnd",
                "itemRgb", "blockCount", "blockSizes", "blockStarts">>

\* Index of a field name in BED_HEADER (the namedtuple's attribute access).
Field(name) == CHOOSE i \in 1..Len(BED_HEADER) : BED_HEADER[i] = name

\* BedTuple(**dict(zip(BedTuple._fields, line))): zip pairs the header with
\* the first fields of the line and drops the rest; the namedtuple needs
\* every one of its fields.
ZipFields(fields) == SubSeq(fields, 1, Min(Len(BED_HEADER), Len(fields)))

\* BedTupleOk that also refuses fields beyond those of the header.
BedTupleOk_Exact(fields) == Len(fields) = Len(BED_HEADER)

BedTupleOk(fields) == Len(ZipFields(fields)) = Len(BED_HEADER)

\* "n1,n2,...," as a str.
RECURSIVE CommaList(_)
CommaList(ns) ==
    IF ns = <<>> THEN <<>> ELSE Str(ns[1]) \o <<",">> \o CommaList(Tail(ns))

\* blockStarts of blocks with the given sizes and gaps; the first is 0.
RECURSIVE BlockStarts(_, _)
BlockStarts(sizes, gaps) ==
    IF Len(sizes) = 1 THEN <<0>>
    ELSE LET front == BlockStarts(SubSeq(sizes, 1, Len(sizes)-1),
                                  SubSeq(gaps, 1, Len(gaps)-1))
             k == Len(sizes) - 1
         IN  Append(front, front[k] + sizes[k] + gaps[k])

\* The length of the transcript whose blocks have the given sizes and gaps.
Span(sizes, gaps) == Sum(sizes) + Sum(gaps)

GeneStrands == { <<"+">>, <<"-">> }
GeneChrom == <<"chr1">>

\* The twelve fields of the BED record of a gene at FirstStart whose blocks
\* have the given sizes and gaps.
Record(sizes, gaps, tstart, tend, gstrand) ==
    << GeneChrom, Str(FirstStart), Str(FirstStart + Span(sizes, gaps)),
       <<"GENE">>, Str(0), gstrand, Str(tstart), Str(tend),
       Str(0), Str(Len(sizes)), CommaList(sizes),
       CommaList(BlockStarts(sizes, gaps)) >>

\* A record with nfields fields: cut short, as written, or with more fields.
Fields(rec, nfields) ==
    IF nfields <= Len(rec)
    THEN SubSeq(rec, 1, nfields)
    ELSE rec \o [i \in 1..(nfields - Len(rec)) |-> <<"extra">>]

\* The constructor's argument: a str, a list of str, or something else.
Line(type, fields) ==
    [type |-> type, val |-> IF type = "str" THEN Join(fields, "\t") ELSE fields]

\* ---------------------------------------------------------------- state
VARIABLES
    line,          \* the argument of a pending BedLine(line) call, None once used
    status,        \* "new" before the constructor ran, then "built" or the
                   \* exception it raised
    bed_tuple,     \* self.bed_tuple
    gene_name,     \* self.gene_name
    chrom,         \* self.chrom
    chrom_start,   \* self.chrom_start
    strand,        \* self.strand
    exons,         \* self.exons
    exon_lens,     \* self.exon_lens
    num_exons,     \* self.num_exons
    cds_len,       \* self.cds_len
    five_ss_len,   \* self.five_ss_len
    query,         \* arguments of the query_position call the caller holds
                   \* the result of, None when it holds none
    pos,           \* what that call returned
    scanned        \* how many exons the loop of that call looked at

object == <<bed_tuple, gene_name, chrom, chrom_start, strand,
            exons, exon_lens, num_exons, cds_len, five_ss_len>>
vars == <<line, status, bed_tuple, gene_name, chrom, chrom_start, strand,
          exons, exon_lens, num_exons, cds_len, five_ss_len,
          query, pos, scanned>>

\* --------------------------------------------------------- _filter_utr
\* FilterExon that keeps the whole exon that contains the coding region.
FilterExon_KeepWhole(exon, coding_start, coding_end) ==
    IF exon[1] > coding_end /\ exon[2] > coding_end
        THEN <<>>
    ELSE IF exon[1] < coding_start /\ exon[2] < coding_start
        THEN <<>>
    ELSE IF exon[1] <= coding_start /\ exon[2] >= coding_end
        THEN <<exon>>
    ELSE IF exon[1] <= coding_start /\ exon[2] < coding_end
        THEN <<<<coding_start, exon[2]>>>>
    ELSE IF exon[1] > coding_start /\ exon[2] >= coding_end
        THEN <<<<exon[1], coding_end>>>>
    ELSE IF exon[1] > coding_start /\ exon[2] < coding_end
        THEN <<exon>>
    ELSE <<>>

\* FilterExon that does not cut the UTR off the front of an exon.
FilterExon_NoStartClip(exon, coding_start, coding_end) ==
    IF exon[1] > coding_end /\ exon[2] > coding_end
        THEN <<>>
    ELSE IF exon[1] < coding_start /\ exon[2] < coding_start
        THEN <<>>
    ELSE IF exon[1] <= coding_start /\ exon[2] >= coding_end
        THEN <<<<coding_start, coding_end>>>>
    ELSE IF exon[1] <= coding_start /\ exon[2] < coding_end
        THEN <<exon>>
    ELSE IF exon[1] > coding_start /\ exon[2] >= coding_end
        THEN <<<<exon[1], coding_end>>>>
    ELSE IF exon[1] > coding_start /\ exon[2] < coding_end
        THEN <<exon>>
    ELSE <<>>

\* FilterExon that does not cut the UTR off the end of an exon.
FilterExon_NoEndClip(exon, coding_start, coding_end) ==
    IF exon[1] > coding_end /\ exon[2] > coding_end
        THEN <<>>
    ELSE IF exon[1] < coding_start /\ exon[2] < coding_start
        THEN <<>>
    ELSE IF exon[1] <= coding_start /\ exon[2] >= coding_end
        THEN <<<<coding_start, coding_end>>>>
    ELSE IF exon[1] <= coding_start /\ exon[2] < coding_end
        THEN <<<<coding_start, exon[2]>>>>
    ELSE IF exon[1] > coding_start /\ exon[2] >= coding_end
        THEN <<exon>>
    ELSE IF exon[1] > coding_start /\ exon[2] < coding_end
        THEN <<exon>>
    ELSE <<>>

\* The body of the loop of _filter_utr: what one exon adds to
\* filtered_exons, for the coding region [coding_start, coding_end).
FilterExon(exon, coding_start, coding_end) ==
    IF exon[1] > coding_end /\ exon[2] > coding_end
        THEN <<>>
    ELSE IF exon[1] < coding_start /\ exon[2] < coding_start
        THEN <<>>
    ELSE IF exon[1] <= coding_start /\ exon[2] >= coding_end
        THEN <<<<coding_start, coding_end>>>>
    ELSE IF exon[1] <= coding_start /\ exon[2] < coding_end
        THEN <<<<coding_start, exon[2]>>>>
    ELSE IF exon[1] > coding_start /\ exon[2] >= coding_end
        THEN <<<<exon[1], coding_end>>>>
    ELSE IF exon[1] > coding_start /\ exon[2] < coding_end
        THEN <<exon>>
    ELSE <<>>

\* The loop of _filter_utr over the exons ex, in order.
RECURSIVE FilterLoop(_, _, _)
FilterLoop(ex, coding_start, coding_end) ==
    IF ex = <<>> THEN <<>>
    ELSE FilterExon(ex[1], coding_start, coding_end)
         \o FilterLoop(Tail(ex), coding_start, coding_end)

\* _filter_utr that takes a coding region of 2 bases for valid.
_filter_utr_MinTwo(bt, ex) ==
    LET coding_start == ToInt(bt[Field("thickStart")])
        coding_end == ToInt(bt[Field("thickEnd")])
    IN  IF (coding_end - coding_start) < 2
        THEN <<>>
        ELSE FilterLoop(ex, coding_start, coding_end)

\* self._filter_utr(ex) of an object whose bed_tuple is bt.
_filter_utr(bt, ex) ==
    LET coding_start == ToInt(bt[Field("thickStart")])
        coding_end == ToInt(bt[Field("thickEnd")])
    IN  IF (coding_end - coding_start) < 3
        THEN <<>>
        ELSE FilterLoop(ex, coding_start, coding_end)

\* --------------------------------------------------------- _init_exons
\* [int(s) for s in field.strip(',').split(',')]
IntList(field) ==
    LET toks == Split(Strip(field, ","), ",")
    IN  [i \in 1..Len(toks) |-> ToInt(toks[i])]

\* The raw exons of _init_exons: the chromosome intervals of the blocks.
RawExons(bt) ==
    LET start0 == ToInt(bt[Field("chromStart")])
        block_starts == IntList(bt[Field("blockStarts")])
        exon_starts == [i \in 1..Len(block_starts) |-> start0 + block_starts[i]]
        exon_sizes == IntList(bt[Field("blockSizes")])
    IN  [i \in 1..Len(exon_starts) |->
            <<exon_starts[i], exon_starts[i] + exon_sizes[i]>>]

\* ExonLens that counts the end coordinate of an exon as one of its bases.
ExonLens_Inclusive(exs) == [i \in 1..Len(exs) |-> exs[i][2] - exs[i][1] + 1]

\* [e[1] - e[0] for e in exs]
ExonLens(exs) == [i \in 1..Len(exs) |-> exs[i][2] - exs[i][1]]

\* ------------------------------------------------------------ __init__
\* The fields the constructor works on: a str is split at the tabs, a list
\* is taken as it is.
SplitLine(l) == IF l.type = "str" THEN Split(l.val, "\t") ELSE l.val

\* The arguments BedLine is constructed from: the records of the genes
\* with sorted, non-overlapping blocks of positive size and a coding region
\* thickStart <= thickEnd whose ends are at most MaxUtr from the ends of the
\* transcript; given as a str, a list or a tuple; with 11, 12 or 13 fields.
Init ==
    /\ \E k \in 1..MaxExons :
       \E sizes \in [1..k -> 1..MaxSize], gaps \in [1..(k-1) -> 0..MaxGap] :
          /\ Span(sizes, gaps) <= MaxSpan
          /\ LET first == FirstStart
                 last == FirstStart + Span(sizes, gaps)
             IN  \E tstart \in first .. Min(first + MaxUtr, last),
                    tend \in Max(last - MaxUtr, first) .. last,
                    gstrand \in GeneStrands,
                    nfields \in (Len(BED_HEADER) - 1) .. (Len(BED_HEADER) + 1),
                    type \in {"str", "list", "tuple"} :
                    /\ tstart <= tend
                    /\ line = Line(type, Fields(Record(sizes, gaps, tstart, tend,
                                                      gstrand), nfields))
    /\ status = "new"
    /\ bed_tuple = None
    /\ gene_name = None
    /\ chrom = None
    /\ chrom_start = None
    /\ strand = None
    /\ exons = None
    /\ exon_lens = None
    /\ num_exons = None
    /\ cds_len = None
    /\ five_ss_len = None
    /\ query = None
    /\ pos = None
    /\ scanned = 0

\* BedLine(line) raises ValueError: line is neither a str nor a list.
ConstructValueError ==
    /\ status = "new"
    /\ line.type \notin {"str", "list"}
    /\ status' = "ValueError"
    /\ line' = None
    /\ UNCHANGED <<object, query, pos, scanned>>

\* BedLine(line) raises TypeError: the namedtuple misses a field.
ConstructTypeError ==
    /\ status = "new"
    /\ line.type \in {"str", "list"}
    /\ ~BedTupleOk(SplitLine(line))
    /\ status' = "TypeError"
    /\ line' = None
    /\ UNCHANGED <<object, query, pos, scanned>>

\* BedLine(line) returns an object: __init__ and the _init_exons it calls.
Construct ==
    /\ status = "new"
    /\ line.type \in {"str", "list"}
    /\ BedTupleOk(SplitLine(line))
    /\ LET bt == ZipFields(SplitLine(line))
           no_utr_exons == _filter_utr(bt, RawExons(bt))
       IN  /\ bed_tuple' = bt
           /\ gene_name' = bt[Field("name")]
           /\ chrom' = bt[Field("chrom")]
           /\ chrom_start' = ToInt(bt[Field("chromStart")])
           /\ strand' = bt[Field("strand")]
           /\ exons' = no_utr_exons
           /\ exon_lens' = ExonLens(no_utr_exons)
           /\ num_exons' = Len(no_utr_exons)
           /\ cds_len' = Sum(ExonLens(no_utr_exons))
           /\ five_ss_len' = 2 * (Len(no_utr_exons) - 1)
    /\ status' = "built"
    /\ line' = None
    /\ UNCHANGED <<query, pos, scanned>>

\* ------------------------------------------------------ query_position
Plus == <<"+">>
Minus == <<"-">>

\* The three tests of the loop of query_position, for the exon with index
\* i (0-based, as in the source) and interval [estart, eend).
InCoding(genome_coord, estart, eend) ==
    estart <= genome_coord /\ genome_coord < eend

\* InDonorWindow without the test for the last exon.
InDonorWindow_AnyExon(i, genome_coord, eend) ==
    eend <= genome_coord /\ genome_coord < eend + 2

InDonorWindow(i, genome_coord, eend) ==
    (eend <= genome_coord /\ genome_coord < eend + 2) /\ i # num_exons - 1

\* InAcceptorWindow with a window that starts one base late.
InAcceptorWindow_OffByOne(i, genome_coord, estart) ==
    (estart - 2 < genome_coord /\ genome_coord < estart) /\ i # 0

InAcceptorWindow(i, genome_coord, estart) ==
    (estart - 2 <= genome_coord /\ genome_coord < estart) /\ i # 0

\* CodingPos with the slice exon_lens[:i+1] in place of exon_lens[:i].
CodingPos_SliceOffByOne(i, genome_coord, estart) ==
    Sum(SubSeq(exon_lens, 1, i + 1)) + (genome_coord - estart)

\* pos of a coordinate inside the exon with index i.
CodingPos(i, genome_coord, estart) ==
    LET prev_lens == Sum(SubSeq(exon_lens, 1, i))
    IN  prev_lens + (genome_coord - estart)

\* DonorPos that numbers the plus strand windows by i in place of 2*i.
DonorPos_NoIndexScale(qstrand, i, genome_coord, eend, p) ==
    IF qstrand = Plus
    THEN Some(cds_len + i + (genome_coord - eend))
    ELSE IF qstrand = Minus
    THEN Some(cds_len + five_ss_len + 2*(num_exons - (i+2))
              + (genome_coord - eend))
    ELSE p

\* DonorPos that looks at the strand of the gene, not at the argument.
DonorPos_GeneStrand(qstrand, i, genome_coord, eend, p) ==
    IF strand = Plus
    THEN Some(cds_len + 2*i + (genome_coord - eend))
    ELSE IF strand = Minus
    THEN Some(cds_len + five_ss_len + 2*(num_exons - (i+2))
              + (genome_coord - eend))
    ELSE p

\* pos after the branch for the window behind the exon with index i; p is
\* pos before it, kept when the strand is neither '+' nor '-'.
DonorPos(qstrand, i, genome_coord, eend, p) ==
    IF qstrand = Plus
    THEN Some(cds_len + 2*i + (genome_coord - eend))
    ELSE IF qstrand = Minus
    THEN Some(cds_len + five_ss_len + 2*(num_exons - (i+2))
              + (genome_coord - eend))
    ELSE p

\* AcceptorPos that keeps a candidate computed for an earlier exon.
AcceptorPos_KeepFirst(qstrand, i, genome_coord, estart, p) ==
    IF p # None
    THEN p
    ELSE IF qstrand = Minus
    THEN Some(cds_len + 2*(num_exons - (i+2)) + (genome_coord - (estart - 2)))
    ELSE IF qstrand = Plus
    THEN Some(cds_len + five_ss_len + 2*(i-1) + (genome_coord - (estart - 2)))
    ELSE p

\* pos after the branch for the window in front of the exon with index i.
AcceptorPos(qstrand, i, genome_coord, estart, p) ==
    IF qstrand = Minus
    THEN Some(cds_len + 2*(num_exons - (i+2)) + (genome_coord - (estart - 2)))
    ELSE IF qstrand = Plus
    THEN Some(cds_len + five_ss_len + 2*(i-1) + (genome_coord - (estart - 2)))
    ELSE p

\* The loop of query_position from the exon with index i on, p being the
\* value of pos so far.  The result is the returned pos and the number of
\* exons the loop looked at.
RECURSIVE Scan(_, _, _, _)
Scan(qstrand, genome_coord, i, p) ==
    IF i >= Len(exons)
    THEN [pos |-> p, scanned |-> i]
    ELSE LET estart == exons[i+1][1]
             eend == exons[i+1][2]
         IN  IF InCoding(genome_coord, estart, eend)
             THEN [pos |-> Some(CodingPos(i, genome_coord, estart)),
                   scanned |-> i + 1]
             ELSE IF InDonorWindow(i, genome_coord, eend)
             THEN Scan(qstrand, genome_coord, i + 1,
                       DonorPos(qstrand, i, genome_coord, eend, p))
             ELSE IF InAcceptorWindow(i, genome_coord, estart)
             THEN Scan(qstrand, genome_coord, i + 1,
                       AcceptorPos(qstrand, i, genome_coord, estart, p))
             ELSE Scan(qstrand, genome_coord, i + 1, p)

\* query_position without the check of the chromosome.
query_position_AnyChrom(qstrand, chr, genome_coord) ==
    Scan(qstrand, genome_coord, 0, None)

\* self.query_position(strand, chr, genome_coord)
query_position(qstrand, chr, genome_coord) ==
    IF chr # chrom
    THEN [pos |-> None, scanned |-> 0]
    ELSE Scan(qstrand, genome_coord, 0, None)

\* The arguments the callers pass.
QStrands == { Plus, Minus, <<".">> }
QChroms == { GeneChrom, <<"chr2">> }
Coords == (FirstStart - Margin) .. (FirstStart + MaxSpan + Margin)

\* Query with a query_position that keeps its result in self.cds_len.
Query_StoresPos ==
    /\ status = "built"
    /\ query = None
    /\ \E qstrand \in QStrands, chr \in QChroms, genome_coord \in Coords :
          LET r == query_position(qstrand, chr, genome_coord)
          IN  /\ query' = [strand |-> qstrand, chr |-> chr,
                           genome_coord |-> genome_coord]
              /\ pos' = r.pos
              /\ scanned' = r.scanned
              /\ cds_len' = IF r.pos = None THEN cds_len ELSE r.pos[1]
    /\ UNCHANGED <<line, status, bed_tuple, gene_name, chrom, chrom_start,
                   strand, exons, exon_lens, num_exons, five_ss_len>>

\* The caller calls query_position on the object and keeps the result.
Query ==
    /\ status = "built"
    /\ query = None
    /\ \E qstrand \in QStrands, chr \in QChroms, genome_coord \in Coords :
          LET r == query_position(qstrand, chr, genome_coord)
          IN  /\ query' = [strand |-> qstrand, chr |-> chr,
                           genome_coord |-> genome_coord]
              /\ pos' = r.pos
              /\ scanned' = r.scanned
    /\ UNCHANGED <<line, status, object>>

\* The caller is done with the result of its call and is free to call again.
Discard ==
    /\ query # None
    /\ query' = None
    /\ pos' = None
    /\ scanned' = 0
    /\ UNCHANGED <<line, status, object>>

Next == Construct \/ ConstructValueError \/ ConstructTypeError \/ Query \/ Discard

Spec == Init /\ [][Next]_vars

\* ================================================================ claims
\* A query_position call has returned and the caller holds its result.
Asked == status = "built" /\ query # None
\* ... and the call named the gene's chromosome.
OnChrom == Asked /\ query.chr = chrom
\* ... and its strand argument was '+' or '-'.
OnStrand == OnChrom /\ query.strand \in {Plus, Minus}

\* The coding region of the record the object was built from.
ThickStart == ToInt(bed_tuple[Field("thickStart")])
ThickEnd == ToInt(bed_tuple[Field("thickEnd")])

\* Coordinate c against the k-th coding exon (k counts from 1): inside it,
\* in the 2 bases behind its end, in the 2 bases in front of its start.
Inside(k, c) == exons[k][1] <= c /\ c < exons[k][2]
Behind(k, c) == exons[k][2] <= c /\ c < exons[k][2] + 2
InFront(k, c) == exons[k][1] - 2 <= c /\ c < exons[k][1]
InsideAny(c) == \E k \in 1..Len(exons) : Inside(k, c)

\* Sum of the lengths of the coding exons in front of the k-th.
PrefixLength(k) == Sum([j \in 1..(k-1) |-> exons[j][2] - exons[j][1]])

\* C1: a non-null result of query_position on the gene's chromosome, for
\* strand '+' or '-' and a gene with at least one coding exon, lies in
\* [0, cds_len + 2*splice_span); the result for a coordinate outside every
\* coding exon (a splice window result) is at least cds_len, so results in
\* [0, cds_len) come from coordinates inside a coding exon only.
C1_AxisPartition ==
    (OnStrand /\ num_exons >= 1 /\ pos # None) =>
        /\ 0 <= pos[1]
        /\ pos[1] < cds_len + 2 * five_ss_len
        /\ (~InsideAny(query.genome_coord) => pos[1] >= cds_len)

\* C2: a coordinate inside the k-th coding exon maps to the lengths of the
\* exons in front of it plus its offset in the exon, whatever the strand
\* argument and whatever windows of earlier exons it lies in; over the whole
\* gene these results are exactly 0 .. cds_len-1 and increase with the
\* coordinate.
C2_InteriorPosition ==
    /\ OnChrom =>
          \A k \in 1..Len(exons) :
             Inside(k, query.genome_coord) =>
                pos = Some(PrefixLength(k) + (query.genome_coord - exons[k][1]))
    /\ (status = "built" /\ query = None) =>
          LET interior == { c \in Coords : InsideAny(c) }
              at(c) == query_position(Plus, chrom, c).pos
          IN  /\ { at(c) : c \in interior } = { Some(n) : n \in 0..(cds_len - 1) }
              /\ \A c \in interior :
                    at(c) = query_position(Minus, chrom, c).pos
              /\ \A c1, c2 \in interior : c1 < c2 => at(c1)[1] < at(c2)[1]

\* C2 witness: the coordinate is inside the second or a later coding exon
\* and also in the 2 bases behind the end of an earlier one, and the result
\* is its coding position.
C2_Witness ==
    /\ OnChrom
    /\ \E k \in 2..Len(exons) :
          /\ Inside(k, query.genome_coord)
          /\ \E j \in 1..(k-1) : Behind(j, query.genome_coord) /\ exons[j][2] > exons[j][1]
          /\ pos = Some(PrefixLength(k) + (query.genome_coord - exons[k][1]))
          /\ pos[1] > 0

\* C3: when thickEnd - thickStart < 3 the object has no coding exons
\* (num_exons 0, cds_len 0) and every query returns None.
C3_ShortCodingRegion ==
    (status = "built" /\ ThickEnd - ThickStart < 3) =>
        /\ exons = <<>>
        /\ num_exons = 0
        /\ cds_len = 0
        /\ pos = None

\* C3 witness: a gene with a coding region of 2 bases was asked, on its own
\* chromosome, for a coordinate of that region that lies in a block.
C3_Witness ==
    /\ OnStrand
    /\ ThickEnd - ThickStart = 2
    /\ query.genome_coord = ThickStart
    /\ \E k \in 1..Len(RawExons(bed_tuple)) :
          /\ RawExons(bed_tuple)[k][1] <= ThickStart
          /\ ThickEnd <= RawExons(bed_tuple)[k][2]
    /\ exons = <<>>
    /\ pos = None

\* C4: a query that names another chromosome than the gene's returns None,
\* whatever the coordinate and the strand, and looks at no exon.
C4_WrongChromosome ==
    (Asked /\ query.chr # chrom) => (pos = None /\ scanned = 0)

\* C4 witness: a query for another chromosome whose coordinate lies inside a
\* coding exon of the gene returned None.
C4_Witness ==
    /\ Asked
    /\ query.chr # chrom
    /\ InsideAny(query.genome_coord)
    /\ pos = None

\* Number of fields of a constructor argument: a str has one more than tabs.
FieldCount(l) ==
    IF l.type = "str"
    THEN Cardinality({ i \in 1..Len(l.val) : l.val[i] = "\t" }) + 1
    ELSE Len(l.val)

Raw == RawExons(bed_tuple)
\* Coordinate c lies inside one of the raw exons raw.
InRaw(raw, c) == \E k \in 1..Len(raw) : raw[k][1] <= c /\ c < raw[k][2]

\* C6: when one raw exon contains the whole coding region of at least 3
\* bases, the coding exon kept for it is exactly [thickStart, thickEnd) and
\* cds_len is thickEnd - thickStart.
C6_ContainingExon ==
    status = "built" =>
        LET raw == Raw
            tstart == ThickStart
            tend == ThickEnd
        IN  (/\ tend - tstart >= 3
             /\ \E k \in 1..Len(raw) : raw[k][1] <= tstart /\ raw[k][2] >= tend)
            => /\ Cardinality({ j \in 1..Len(exons) :
                                  exons[j] = <<tstart, tend>> }) = 1
               /\ cds_len = tend - tstart

\* C6 witness: a raw exon holds UTR besides the whole coding region, and
\* the object keeps exactly the coding region of it.
C6_Witness ==
    /\ status = "built"
    /\ ThickEnd - ThickStart >= 3
    /\ cds_len = ThickEnd - ThickStart
    /\ \E j \in 1..Len(exons) : exons[j] = <<ThickStart, ThickEnd>>
    /\ LET raw == Raw
       IN  \E k \in 1..Len(raw) :
              /\ raw[k][1] <= ThickStart /\ raw[k][2] >= ThickEnd
              /\ raw[k][2] - raw[k][1] > ThickEnd - ThickStart

\* C7: when the coding region has at least 3 bases and both thickStart and
\* thickEnd - 1 lie inside raw exons, a query on the gene's chromosome, with
\* strand '+' or '-', returns 0 for thickStart and cds_len - 1 for
\* thickEnd - 1.
C7_FirstLastCodingBase ==
    OnStrand =>
        LET raw == Raw
            tstart == ThickStart
            tend == ThickEnd
        IN  (/\ tend - tstart >= 3
             /\ query.genome_coord \in {tstart, tend - 1}
             /\ InRaw(raw, tstart)
             /\ InRaw(raw, tend - 1))
            => /\ query.genome_coord = tstart => pos = Some(0)
               /\ query.genome_coord = tend - 1 => pos = Some(cds_len - 1)

\* C7 witness: a gene with UTR on both sides and more than one coding exon
\* was asked for its last coding base and returned cds_len - 1.
C7_Witness ==
    /\ OnStrand
    /\ num_exons >= 2
    /\ ThickEnd - ThickStart >= 3
    /\ query.genome_coord = ThickEnd - 1
    /\ pos = Some(cds_len - 1)
    /\ chrom_start < ThickStart
    /\ LET raw == Raw
       IN  /\ InRaw(raw, ThickStart) /\ InRaw(raw, ThickEnd - 1)
           /\ ThickEnd < raw[Len(raw)][2]

\* Consecutive coding exons are at least d bases apart.
Separated(d) ==
    \A k \in 1..(Len(exons) - 1) : exons[k+1][1] - exons[k][2] >= d

\* The 2 bases behind the last coding exon and in front of the first.
OuterWindow(c) == Behind(Len(exons), c) \/ InFront(1, c)

\* C8 as claimed: a coordinate in the 2 bases behind the end of the last
\* coding exon or in front of the start of the first returns None for
\* strand '+' and '-'; so does every coordinate outside the coding exon of
\* a gene with one coding exon.
C8_OuterWindows ==
    (OnStrand /\ num_exons >= 1) =>
        /\ OuterWindow(query.genome_coord) => pos = None
        /\ (num_exons = 1 /\ ~Inside(1, query.genome_coord)) => pos = None

\* C8 as amended: the same, for genes whose consecutive coding exons are at
\* least 2 bases apart.
C8_OuterWindowsSeparated ==
    (OnStrand /\ num_exons >= 1 /\ Separated(2)) =>
        /\ OuterWindow(query.genome_coord) => pos = None
        /\ (num_exons = 1 /\ ~Inside(1, query.genome_coord)) => pos = None

\* C8 witness: a gene with several coding exons, at least 2 bases apart, was
\* asked for a base right behind its last coding exon and returned None.
C8_Witness ==
    /\ OnStrand
    /\ num_exons >= 2
    /\ Separated(2)
    /\ Behind(num_exons, query.genome_coord)
    /\ pos = None

\* splice_span, from the coding exons.
SpliceSpan == 2 * (Len(exons) - 1)

\* C9: for strand '+' and coding exons at least 4 bases apart, a coordinate
\* in the 2 bases behind the exon with index i (not the last) maps to
\* cds_len + 2*i + (coordinate - end), and one in the 2 bases in front of
\* the exon with index i (not the first) to
\* cds_len + splice_span + 2*(i-1) + (coordinate - (start - 2)).
C9_PlusSpliceNumbering ==
    (OnChrom /\ query.strand = Plus /\ Separated(4)) =>
        \A k \in 1..Len(exons) :
           LET i == k - 1
               c == query.genome_coord
           IN  /\ (Behind(k, c) /\ k # Len(exons))
                     => pos = Some(cds_len + 2*i + (c - exons[k][2]))
               /\ (InFront(k, c) /\ k # 1)
                     => pos = Some(cds_len + SpliceSpan + 2*(i-1)
                                   + (c - (exons[k][1] - 2)))

\* C9 witness: a gene with three coding exons at least 4 bases apart was
\* asked, with strand '+', for the base behind its middle exon.
C9_Witness ==
    /\ OnChrom /\ query.strand = Plus
    /\ num_exons = 3
    /\ Separated(4)
    /\ query.genome_coord = exons[2][2] + 1
    /\ pos = Some(cds_len + 2 + 1)

\* C10: on the gene's chromosome and for strand '+' or '-' the result is an
\* integer exactly when the coordinate lies inside a coding exon, in the 2
\* bases behind a coding exon that is not the last, or in the 2 bases in
\* front of one that is not the first; else it is None.
C10_NullIffUnmapped ==
    OnStrand =>
        /\ pos # None <=>
              \E k \in 1..Len(exons) :
                 \/ Inside(k, query.genome_coord)
                 \/ Behind(k, query.genome_coord) /\ k # Len(exons)
                 \/ InFront(k, query.genome_coord) /\ k # 1
        /\ Len(pos) <= 1

\* C10 witness: a gene with several coding exons was asked for a base of
\* its transcript that is UTR and in no window, and returned None.
C10_Witness ==
    /\ OnStrand
    /\ num_exons >= 2
    /\ pos = None
    /\ query.genome_coord < exons[1][1] - 2
    /\ InRaw(Raw, query.genome_coord)

\* The attributes the constructor gives an object whose record is bt.
Built(bt) ==
    LET ex == _filter_utr(bt, RawExons(bt))
    IN  <<bt, bt[Field("name")], bt[Field("chrom")],
          ToInt(bt[Field("chromStart")]), bt[Field("strand")],
          ex, ExonLens(ex), Len(ex), Sum(ExonLens(ex)), 2 * (Len(ex) - 1)>>

\* C11: query_position changes no attribute of the object; so after any
\* queries the object is still what the constructor makes of its record
\* (two objects of one record are equal), and the result the caller holds
\* is what query_position returns for the same arguments now.
C11_NoHiddenState ==
    /\ [][status = "built" => object' = object]_vars
    /\ [](status = "built" => object = Built(bed_tuple))
    /\ [](Asked => pos = query_position(query.strand, query.chr,
                                         query.genome_coord).pos)

\* C11 witness: a query has returned a position and the object is what the
\* constructor made of the record.
C11_Witness ==
    /\ OnStrand
    /\ pos # None
    /\ num_exons >= 2
    /\ object = Built(bed_tuple)

\* The raw exon e shares at least one base with [tstart, tend).
Shares(e, tstart, tend) == e[1] < tend /\ e[2] > tstart
\* The part of the raw exon e inside [tstart, tend).
Clip(e, tstart, tend) == <<Max(e[1], tstart), Min(e[2], tend)>>

\* C12: with a coding region of at least 3 bases, a raw exon that ends at or
\* before thickStart or starts at or after thickEnd adds no interval: every
\* coding exon has positive length and num_exons is the number of raw exons
\* that hold a coding base.
C12_UtrExonsDropped ==
    status = "built" =>
        LET raw == Raw
            tstart == ThickStart
            tend == ThickEnd
        IN  tend - tstart >= 3 =>
               /\ \A j \in 1..Len(exons) : exons[j][2] > exons[j][1]
               /\ num_exons = Cardinality({ k \in 1..Len(raw) :
                                              Shares(raw[k], tstart, tend) })

\* C13: with a coding region of at least 3 bases, the raw exons that share
\* a base with it give, in their order, their parts inside the coding
\* region, and these are the coding exons of positive length; the coding
\* exons are sorted and do not overlap, and each lies within the coding
\* region and within a raw exon.
C13_Clipping ==
    status = "built" =>
        LET raw == Raw
            tstart == ThickStart
            tend == ThickEnd
            sharing == SelectSeq(raw, LAMBDA e : Shares(e, tstart, tend))
        IN  tend - tstart >= 3 =>
               /\ SelectSeq(exons, LAMBDA e : e[2] > e[1])
                     = [k \in 1..Len(sharing) |-> Clip(sharing[k], tstart, tend)]
               /\ \A j \in 1..Len(exons) :
                     /\ exons[j][1] <= exons[j][2]
                     /\ tstart <= exons[j][1] /\ exons[j][2] <= tend
                     /\ \E k \in 1..Len(raw) :
                           raw[k][1] <= exons[j][1] /\ exons[j][2] <= raw[k][2]
                     /\ j < Len(exons) => exons[j][2] <= exons[j+1][1]

\* C13 witness: three raw exons share bases with the coding region, the
\* first and the last hold UTR too, and the coding exons are their parts
\* inside the coding region.
C13_Witness ==
    /\ status = "built"
    /\ Len(exons) = 3
    /\ LET raw == Raw
       IN  /\ Len(raw) = 3
           /\ raw[1][1] < ThickStart /\ ThickStart < raw[1][2]
           /\ raw[3][1] < ThickEnd /\ ThickEnd < raw[3][2]
           /\ exons = << <<ThickStart, raw[1][2]>>, raw[2],
                         <<raw[3][1], ThickEnd>> >>

\* The coding exons (numbered from 1) for which the coordinate c meets a
\* window condition: behind one that is not the last, or in front of one
\* that is not the first.
WindowExons(c) ==
    { k \in 1..Len(exons) : \/ Behind(k, c) /\ k # Len(exons)
                            \/ InFront(k, c) /\ k # 1 }

\* The candidate the window condition of the k-th coding exon gives the
\* coordinate c for the strand argument s ('+' or '-').
Candidate(s, k, c) ==
    LET i == k - 1
        total == Sum([j \in 1..Len(exons) |-> exons[j][2] - exons[j][1]])
    IN  IF Behind(k, c)
        THEN IF s = Plus
             THEN total + 2*i + (c - exons[k][2])
             ELSE total + SpliceSpan + 2*(Len(exons) - (i+2)) + (c - exons[k][2])
        ELSE IF s = Plus
             THEN total + SpliceSpan + 2*(i-1) + (c - (exons[k][1] - 2))
             ELSE total + 2*(Len(exons) - (i+2)) + (c - (exons[k][1] - 2))

\* The largest element of a nonempty set of numbers.
Highest(S) == CHOOSE k \in S : \A j \in S : j <= k
\* The smallest element of a nonempty set of numbers.
Lowest(S) == CHOOSE k \in S : \A j \in S : k <= j

\* C14: for strand '+' or '-', a coordinate inside no coding exon that meets
\* a window condition for one or more exons returns the candidate of the
\* exon with the highest index among them.
C14_LastCandidateWins ==
    OnStrand =>
        LET c == query.genome_coord
            W == WindowExons(c)
        IN  (~InsideAny(c) /\ W # {})
               => pos = Some(Candidate(query.strand, Highest(W), c))

\* C14 witness: a coordinate in an intron shorter than 4 bases met the
\* window conditions of two exons, and the result is the candidate of the
\* later exon and differs from the one of the earlier exon.
C14_Witness ==
    /\ OnStrand
    /\ LET c == query.genome_coord
           W == WindowExons(c)
       IN  /\ ~InsideAny(c)
           /\ Cardinality(W) >= 2
           /\ pos = Some(Candidate(query.strand, Highest(W), c))
           /\ pos # Some(Candidate(query.strand, Lowest(W), c))

\* C15: for a gene whose coding exons are at least 4 bases apart and a
\* strand argument '+' or '-', no other coordinate returns the integer that
\* the coordinate asked for returned.
C15_Injective ==
    (OnStrand /\ Separated(4) /\ pos # None) =>
        \A c2 \in Coords \ {query.genome_coord} :
           query_position(query.strand, query.chr, c2).pos # pos

\* C16: in every state of a built object, after any queries, num_exons is
\* the length of the coding exon list, five_ss_len is 2*(num_exons - 1),
\* exon_lens holds the lengths of the coding exons and cds_len is their sum;
\* cds_len is the number of positions of [thickStart, thickEnd) inside a raw
\* exon, and 0 when the coding region has fewer than 3 bases.
C16_PrecomputedTotals ==
    status = "built" =>
        /\ num_exons = Len(exons)
        /\ five_ss_len = 2 * (num_exons - 1)
        /\ exon_lens = [j \in 1..Len(exons) |-> exons[j][2] - exons[j][1]]
        /\ cds_len = Sum(exon_lens)
        /\ LET raw == Raw
               tstart == ThickStart
               tend == ThickEnd
           IN  cds_len = IF tend - tstart < 3
                         THEN 0
                         ELSE Cardinality({ c \in tstart..(tend - 1) :
                                              InRaw(raw, c) })

\* C16 witness: an object with UTR on both sides and two or more coding
\* exons, one of them cut, has answered a query for a coding base.
C16_Witness ==
    /\ OnStrand
    /\ pos # None
    /\ InsideAny(query.genome_coord)
    /\ num_exons >= 2
    /\ five_ss_len = 2 * (num_exons - 1)
    /\ cds_len = Sum(exon_lens)
    /\ LET raw == Raw
       IN  /\ raw[1][1] < ThickStart
           /\ ThickEnd < raw[Len(raw)][2]
           /\ cds_len = Cardinality({ c \in ThickStart..(ThickEnd - 1) :
                                        InRaw(raw, c) })
           /\ cds_len < Sum(ExonLens(raw))

\* What a query with strand argument s returns for the coordinate c on the
\* gene's chromosome, written from the coding exons and s alone.
Expected(s, c) ==
    IF InsideAny(c)
    THEN LET k == CHOOSE j \in 1..Len(exons) : Inside(j, c)
         IN  Some(PrefixLength(k) + (c - exons[k][1]))
    ELSE IF s \in {Plus, Minus} /\ WindowExons(c) # {}
    THEN Some(Candidate(s, Highest(WindowExons(c)), c))
    ELSE None

\* C17: the result of a query on the gene's chromosome is fixed by the
\* coding exons and the strand argument, whatever the strand of the gene;
\* with a strand argument other than '+' and '-' a coordinate inside a
\* coding exon returns its coding position and any other coordinate, those
\* in splice windows included, returns None.
C17_StrandArgument ==
    OnChrom =>
        /\ pos = Expected(query.strand, query.genome_coord)
        /\ query.strand \notin {Plus, Minus} =>
              pos = IF InsideAny(query.genome_coord)
                    THEN Expected(Plus, query.genome_coord)
                    ELSE None

\* C17 witness: a gene on strand '+' or '-' was asked, with strand argument
\* '.', for a coordinate that lies in a splice window and inside no coding
\* exon, and returned None.
C17_Witness ==
    /\ OnChrom
    /\ query.strand = <<".">>
    /\ strand \in {Plus, Minus}
    /\ ~InsideAny(query.genome_coord)
    /\ WindowExons(query.genome_coord) # {}
    /\ pos = None

====
